---- MODULE Spec2Model ----
(***************************************************************************)
(* Pathfinding visualizer (src/src/App.jsx): the grid model, the two       *)
(* shortest-path searches, the pointer-driven edit handlers and the        *)
(* timer-driven reveal of a search trace on the live grid.                 *)
(*                                                                         *)
(* A cell is a record with the fields of createNode.  A grid is a function *)
(* row -> col -> cell over 0..rows-1 and 0..cols-1.  A reference to a cell *)
(* of a grid (an element of a node array, a `previous` link) is the pair   *)
(* <<row, col>> of that cell in that grid; null is the string "null".      *)
(***************************************************************************)
EXTENDS Integers, Sequences, FiniteSets, TLC

\* Grid dimensions (20 x 50 in the source), scaled down for model checking.
ROWS == 2
COLS == 3

\* Default marker placement, at the same relative position as in the source:
\* the middle row, one tenth and nine tenths of the width.
START_NODE_ROW == ROWS \div 2
START_NODE_COL == COLS \div 10
END_NODE_ROW == ROWS \div 2
END_NODE_COL == (COLS * 9) \div 10

\* Number of user events (press, enter, release, reset, clear, runSearch,
\* algorithm choice) in one session.
MaxEvents == 4

\* Dimensions of the grids on which getNeighbors is checked as a function:
\* the smallest that have a cell with all four neighbours.
NeighborRows == 3
NeighborCols == 3

\* Number.POSITIVE_INFINITY: larger than every finite distance or score.
Infinity == 1000000
NULL == "null"

\* Delay between two path reveals (the literal 50 of animatePath).
PATH_DELAY == 50
\* Initial value of the speed state (delay between two visited reveals).
INITIAL_SPEED == 10

Abs(x) == IF x < 0 THEN -x ELSE x

NumRows(g) == Cardinality(DOMAIN g)
NumCols(g) == Cardinality(DOMAIN g[0])
Coords(g) == (0 .. NumRows(g) - 1) \X (0 .. NumCols(g) - 1)
At(g, n) == g[n[1]][n[2]]
SetCell(g, n, cell) == [g EXCEPT ![n[1]][n[2]] = cell]

(***************************************************************************)
(* ALGORITHM UTILITIES                                                     *)
(***************************************************************************)
\* Mutant of getNeighbors: the wall filter is missing.
getNeighborsUnfiltered(node, grid) ==
    LET row == node[1]
        col == node[2]
        up == IF row > 0 THEN << <<row - 1, col>> >> ELSE << >>
        down == IF row < NumRows(grid) - 1 THEN << <<row + 1, col>> >> ELSE << >>
        left == IF col > 0 THEN << <<row, col - 1>> >> ELSE << >>
        right == IF col < NumCols(grid) - 1 THEN << <<row, col + 1>> >> ELSE << >>
    IN  up \o down \o left \o right

\* The non-wall cells above, below, left and right of node, in that order.
getNeighbors(node, grid) ==
    LET row == node[1]
        col == node[2]
        rows == NumRows(grid)
        cols == NumCols(grid)
        up == IF row > 0 THEN << <<row - 1, col>> >> ELSE << >>
        down == IF row < rows - 1 THEN << <<row + 1, col>> >> ELSE << >>
        left == IF col > 0 THEN << <<row, col - 1>> >> ELSE << >>
        right == IF col < cols - 1 THEN << <<row, col + 1>> >> ELSE << >>
        neighbors == up \o down \o left \o right
    IN  SelectSeq(neighbors, LAMBDA n : ~At(grid, n).isWall)

\* Mutant of getAllNodes: every cell is listed twice.
getAllNodesDuplicated(grid) ==
    LET cols == NumCols(grid)
        once == [k \in 1 .. NumRows(grid) * cols |-> <<(k - 1) \div cols, (k - 1) % cols>>]
    IN  once \o once

\* All cells of the grid, row by row.
getAllNodes(grid) ==
    LET cols == NumCols(grid)
    IN  [k \in 1 .. NumRows(grid) * cols |-> <<(k - 1) \div cols, (k - 1) % cols>>]

\* Mutant of InsertByKey: n goes in front of the elements with an equal key
\* (the sort is not stable).
RECURSIVE InsertByKeyBeforeEqual(_, _, _)
InsertByKeyBeforeEqual(sorted, n, key) ==
    IF sorted = << >> THEN <<n>>
    ELSE IF key[sorted[Len(sorted)]] < key[n] THEN Append(sorted, n)
    ELSE Append(InsertByKeyBeforeEqual(SubSeq(sorted, 1, Len(sorted) - 1), n, key),
                sorted[Len(sorted)])

\* Array.prototype.sort with the comparator (a, b) => key(a) - key(b): a
\* stable sort by key (Infinity - Infinity is NaN, which sort treats as 0).
\* InsertByKey puts n behind the elements of sorted whose key is not larger.
RECURSIVE InsertByKey(_, _, _)
InsertByKey(sorted, n, key) ==
    IF sorted = << >> THEN <<n>>
    ELSE IF key[sorted[Len(sorted)]] <= key[n] THEN Append(sorted, n)
    ELSE Append(InsertByKey(SubSeq(sorted, 1, Len(sorted) - 1), n, key), sorted[Len(sorted)])

\* Mutant of SortByKey: the comparator is flipped (b - a), largest key first.
RECURSIVE InsertByKeyDescending(_, _, _)
InsertByKeyDescending(sorted, n, key) ==
    IF sorted = << >> THEN <<n>>
    ELSE IF key[sorted[Len(sorted)]] >= key[n] THEN Append(sorted, n)
    ELSE Append(InsertByKeyDescending(SubSeq(sorted, 1, Len(sorted) - 1), n, key),
                sorted[Len(sorted)])

RECURSIVE SortByKeyDescending(_, _)
SortByKeyDescending(nodes, key) ==
    IF nodes = << >> THEN << >>
    ELSE InsertByKeyDescending(SortByKeyDescending(SubSeq(nodes, 1, Len(nodes) - 1), key),
                               nodes[Len(nodes)], key)

RECURSIVE SortByKey(_, _)
SortByKey(nodes, key) ==
    IF nodes = << >> THEN << >>
    ELSE InsertByKey(SortByKey(SubSeq(nodes, 1, Len(nodes) - 1), key), nodes[Len(nodes)], key)

\* Mutant of WalkBack: push instead of unshift (the path comes out reversed).
RECURSIVE WalkBackPush(_, _, _)
WalkBackPush(grid, current, path) ==
    IF current = NULL THEN path
    ELSE WalkBackPush(grid, At(grid, current).previous, Append(path, current))

\* Path reconstruction: walk `previous` from the end node, prepending.
RECURSIVE WalkBack(_, _, _)
WalkBack(grid, current, path) ==
    IF current = NULL THEN path
    ELSE WalkBack(grid, At(grid, current).previous, <<current>> \o path)

(***************************************************************************)
(* DIJKSTRA'S ALGORITHM                                                    *)
(***************************************************************************)
\* The relaxation loop over the neighbors of closest.
RECURSIVE dijkstraRelax(_, _, _)
dijkstraRelax(grid, closest, neighbors) ==
    IF neighbors = << >> THEN grid
    ELSE LET neighbor == Head(neighbors)
             newDistance == At(grid, closest).distance + 1
             g1 == IF newDistance < At(grid, neighbor).distance
                   THEN SetCell(grid, neighbor,
                            [At(grid, neighbor) EXCEPT !.distance = newDistance,
                                                       !.previous = closest])
                   ELSE grid
         IN  dijkstraRelax(g1, closest, Tail(neighbors))

\* The while loop of dijkstra.
RECURSIVE dijkstraLoop(_, _, _, _)
dijkstraLoop(grid, unvisited, visitedInOrder, endNode) ==
    IF Len(unvisited) = 0
    THEN [visitedInOrder |-> visitedInOrder, path |-> << >>, grid |-> grid]
    ELSE LET sorted == SortByKey(unvisited, [n \in Coords(grid) |-> At(grid, n).distance])
             closest == Head(sorted)
             rest == Tail(sorted)
         IN  IF At(grid, closest).isWall
             THEN dijkstraLoop(grid, rest, visitedInOrder, endNode)
             ELSE IF At(grid, closest).distance = Infinity
             THEN [visitedInOrder |-> visitedInOrder, path |-> << >>, grid |-> grid]
             ELSE LET g1 == SetCell(grid, closest, [At(grid, closest) EXCEPT !.isVisited = TRUE])
                      visited1 == Append(visitedInOrder, closest)
                  IN  IF closest = endNode
                      THEN [visitedInOrder |-> visited1,
                            path |-> WalkBack(g1, endNode, << >>),
                            grid |-> g1]
                      ELSE dijkstraLoop(dijkstraRelax(g1, closest, getNeighbors(closest, g1)),
                                        rest, visited1, endNode)

dijkstra(grid, startNode, endNode) ==
    LET g0 == SetCell(grid, startNode, [At(grid, startNode) EXCEPT !.distance = 0])
    IN  dijkstraLoop(g0, getAllNodes(g0), << >>, endNode)

(***************************************************************************)
(* A* ALGORITHM                                                            *)
(***************************************************************************)
heuristic(nodeA, nodeB) == Abs(nodeA[1] - nodeB[1]) + Abs(nodeA[2] - nodeB[2])

InSeq(seq, x) == \E k \in 1 .. Len(seq) : seq[k] = x

\* The relaxation loop over the neighbors of current; st = [grid, openSet].
RECURSIVE astarRelax(_, _, _, _)
astarRelax(st, current, neighbors, endNode) ==
    IF neighbors = << >> THEN st
    ELSE LET neighbor == Head(neighbors)
             tentativeG == At(st.grid, current).distance + 1
             st1 == IF At(st.grid, neighbor).isVisited THEN st
                    ELSE IF tentativeG < At(st.grid, neighbor).distance
                    THEN [grid |-> SetCell(st.grid, neighbor,
                                      [At(st.grid, neighbor) EXCEPT
                                          !.previous = current,
                                          !.distance = tentativeG,
                                          !.fScore = tentativeG + heuristic(neighbor, endNode)]),
                          openSet |-> IF ~InSeq(st.openSet, neighbor)
                                      THEN Append(st.openSet, neighbor)
                                      ELSE st.openSet]
                    ELSE st
         IN  astarRelax(st1, current, Tail(neighbors), endNode)

\* The while loop of astar.
RECURSIVE astarLoop(_, _, _, _)
astarLoop(grid, openSet, visitedInOrder, endNode) ==
    IF ~(Len(openSet) > 0)
    THEN [visitedInOrder |-> visitedInOrder, path |-> << >>, grid |-> grid]
    ELSE LET sorted == SortByKey(openSet, [n \in Coords(grid) |-> At(grid, n).fScore])
             current == Head(sorted)
             rest == Tail(sorted)
         IN  IF At(grid, current).isWall
             THEN astarLoop(grid, rest, visitedInOrder, endNode)
             ELSE IF At(grid, current).isVisited
             THEN astarLoop(grid, rest, visitedInOrder, endNode)
             ELSE LET g1 == SetCell(grid, current, [At(grid, current) EXCEPT !.isVisited = TRUE])
                      visited1 == Append(visitedInOrder, current)
                  IN  IF current = endNode
                      THEN [visitedInOrder |-> visited1,
                            path |-> WalkBack(g1, endNode, << >>),
                            grid |-> g1]
                      ELSE LET st == astarRelax([grid |-> g1, openSet |-> rest], current,
                                                getNeighbors(current, g1), endNode)
                           IN  astarLoop(st.grid, st.openSet, visited1, endNode)

astar(grid, startNode, endNode) ==
    LET g0 == SetCell(grid, startNode,
                  [At(grid, startNode) EXCEPT !.distance = 0,
                                              !.fScore = heuristic(startNode, endNode)])
    IN  astarLoop(g0, <<startNode>>, << >>, endNode)

(***************************************************************************)
(* MAIN VISUALIZER COMPONENT: state                                        *)
(***************************************************************************)
VARIABLES
    grid,            \* useState grid: the live grid
    isMousePressed,  \* useState: a wall stroke is in progress
    isRunning,       \* useState: the gate of a search and its animation
    algorithm,       \* useState: "dijkstra" or "astar"
    isMovingStart,   \* useState: the start marker is being dragged
    isMovingEnd,     \* useState: the end marker is being dragged
    speed,           \* useState: delay between two visited reveals
    startNodeRef,    \* useRef: <<row, col>> of the start marker
    endNodeRef,      \* useRef: <<row, col>> of the end marker
    timers,          \* pending setTimeout callbacks, in registration order
    visitedCoords,   \* trace captured by the pending callbacks of the run
    pathCoords,      \* path captured by the pending callbacks of the run
    lastGated,       \* history: the handler the isRunning gate returned from
                     \* early in the last step, "none" if the last step ran
    lastEdit,        \* history: "reset" or "clear" when the last step was
                     \* that handler and it ran, "none" otherwise
    nEvents,         \* number of user events so far
    calledNode,      \* argument of the last direct getNeighbors call, or null
    returned         \* what that call returned

vars == <<grid, isMousePressed, isRunning, algorithm, isMovingStart, isMovingEnd,
          speed, startNodeRef, endNodeRef, timers, visitedCoords, pathCoords,
          lastGated, lastEdit, nEvents, calledNode, returned>>

Algorithms == {"dijkstra", "astar"}
\* Speeds the slider (min="1" max="50") is set to: its initial value and
\* its maximum.
SpeedValues == {INITIAL_SPEED, 50}

createNode(row, col, startRef, endRef) ==
    [row |-> row,
     col |-> col,
     isStart |-> (row = startRef[1] /\ col = startRef[2]),
     isEnd |-> (row = endRef[1] /\ col = endRef[2]),
     distance |-> Infinity,
     fScore |-> Infinity,
     isVisited |-> FALSE,
     isWall |-> FALSE,
     previous |-> NULL,
     isPath |-> FALSE]

createInitialGrid(startRef, endRef) ==
    [row \in 0 .. ROWS - 1 |-> [col \in 0 .. COLS - 1 |-> createNode(row, col, startRef, endRef)]]

DefaultStart == <<START_NODE_ROW, START_NODE_COL>>
DefaultEnd == <<END_NODE_ROW, END_NODE_COL>>

\* The state after mount: the effect of useEffect has stored the initial grid.
Init ==
    /\ grid = createInitialGrid(DefaultStart, DefaultEnd)
    /\ isMousePressed = FALSE
    /\ isRunning = FALSE
    /\ algorithm = "dijkstra"
    /\ isMovingStart = FALSE
    /\ isMovingEnd = FALSE
    /\ speed = INITIAL_SPEED
    /\ startNodeRef = DefaultStart
    /\ endNodeRef = DefaultEnd
    /\ timers = << >>
    /\ visitedCoords = << >>
    /\ pathCoords = << >>
    /\ lastGated = "none"
    /\ lastEdit = "none"
    /\ nEvents = 0
    /\ calledNode = NULL
    /\ returned = << >>

(***************************************************************************)
(* Grid edits                                                              *)
(***************************************************************************)
\* Mutant of toggleWall: the cell is made a wall instead of being flipped.
toggleWallSetsWall(g, row, col) ==
    LET node == g[row][col]
    IN  IF ~node.isStart /\ ~node.isEnd
        THEN [g EXCEPT ![row][col] = [node EXCEPT !.isWall = TRUE]]
        ELSE g

\* Mutant of toggleWall: the start/end test is missing.
toggleWallUnguarded(g, row, col) ==
    [g EXCEPT ![row][col] = [g[row][col] EXCEPT !.isWall = ~g[row][col].isWall]]

toggleWall(g, row, col) ==
    LET node == g[row][col]
    IN  IF ~node.isStart /\ ~node.isEnd
        THEN [g EXCEPT ![row][col] = [node EXCEPT !.isWall = ~node.isWall]]
        ELSE g

\* Returns the new grid and the new value of startNodeRef.
moveStartNode(g, row, col, startRef) ==
    LET newGrid == [r \in DOMAIN g |-> [c \in DOMAIN g[r] |-> [g[r][c] EXCEPT !.isStart = FALSE]]]
    IN  IF ~newGrid[row][col].isWall /\ ~newGrid[row][col].isEnd
        THEN [grid |-> [newGrid EXCEPT ![row][col].isStart = TRUE], ref |-> <<row, col>>]
        ELSE [grid |-> newGrid, ref |-> startRef]

\* Returns the new grid and the new value of endNodeRef.
moveEndNode(g, row, col, endRef) ==
    LET newGrid == [r \in DOMAIN g |-> [c \in DOMAIN g[r] |-> [g[r][c] EXCEPT !.isEnd = FALSE]]]
    IN  IF ~newGrid[row][col].isWall /\ ~newGrid[row][col].isStart
        THEN [grid |-> [newGrid EXCEPT ![row][col].isEnd = TRUE], ref |-> <<row, col>>]
        ELSE [grid |-> newGrid, ref |-> endRef]

\* Mutant of resetCells: isPath is not cleared.
resetCellsKeepsPath(g) ==
    [r \in DOMAIN g |-> [c \in DOMAIN g[r] |->
        [g[r][c] EXCEPT !.isVisited = FALSE,
                        !.distance = Infinity,
                        !.fScore = Infinity,
                        !.previous = NULL]]]

resetCells(g) ==
    [r \in DOMAIN g |-> [c \in DOMAIN g[r] |->
        [g[r][c] EXCEPT !.isVisited = FALSE,
                        !.isPath = FALSE,
                        !.distance = Infinity,
                        !.fScore = Infinity,
                        !.previous = NULL]]]

\* Mutant of copyGrid: the copy leaves out the isWall field.
copyGridNoWalls(g) ==
    [r \in DOMAIN g |-> [c \in DOMAIN g[r] |->
        [row |-> g[r][c].row,
         col |-> g[r][c].col,
         isStart |-> g[r][c].isStart,
         isEnd |-> g[r][c].isEnd,
         isWall |-> FALSE,
         distance |-> Infinity,
         fScore |-> Infinity,
         isVisited |-> FALSE,
         previous |-> NULL,
         isPath |-> FALSE]]]

\* The deep copy visualize runs the search on.
copyGrid(g) ==
    [r \in DOMAIN g |-> [c \in DOMAIN g[r] |->
        [row |-> g[r][c].row,
         col |-> g[r][c].col,
         isStart |-> g[r][c].isStart,
         isEnd |-> g[r][c].isEnd,
         isWall |-> g[r][c].isWall,
         distance |-> Infinity,
         fScore |-> Infinity,
         isVisited |-> FALSE,
         previous |-> NULL,
         isPath |-> FALSE]]]

UserEvent == /\ nEvents < MaxEvents
             /\ nEvents' = nEvents + 1

(***************************************************************************)
(* Handlers                                                                *)
(***************************************************************************)
\* Mutant of resetGrid: the isRunning gate is missing.
resetGridUngated ==
    /\ UserEvent
    /\ grid' = resetCells(grid)
    /\ lastGated' = IF isRunning THEN "reset" ELSE "none"
    /\ lastEdit' = IF isRunning THEN "none" ELSE "reset"
    /\ UNCHANGED <<isMousePressed, isRunning, algorithm, isMovingStart, isMovingEnd, speed,
                   startNodeRef, endNodeRef, timers, visitedCoords, pathCoords>>
    /\ UNCHANGED <<calledNode, returned>>

resetGrid ==
    /\ UserEvent
    /\ IF isRunning
       THEN /\ lastGated' = "reset"
            /\ lastEdit' = "none"
            /\ UNCHANGED grid
       ELSE /\ grid' = resetCells(grid)
            /\ lastGated' = "none"
            /\ lastEdit' = "reset"
    /\ UNCHANGED <<isMousePressed, isRunning, algorithm, isMovingStart, isMovingEnd, speed,
                   startNodeRef, endNodeRef, timers, visitedCoords, pathCoords>>
    /\ UNCHANGED <<calledNode, returned>>

\* Mutant of clearBoard: the two refs are not set back to the defaults.
clearBoardKeepsRefs ==
    /\ UserEvent
    /\ IF isRunning
       THEN /\ lastGated' = "clear"
            /\ lastEdit' = "none"
            /\ UNCHANGED grid
       ELSE /\ grid' = createInitialGrid(startNodeRef, endNodeRef)
            /\ lastGated' = "none"
            /\ lastEdit' = "clear"
    /\ UNCHANGED <<isMousePressed, isRunning, algorithm, isMovingStart, isMovingEnd, speed,
                   startNodeRef, endNodeRef, timers, visitedCoords, pathCoords>>
    /\ UNCHANGED <<calledNode, returned>>

clearBoard ==
    /\ UserEvent
    /\ IF isRunning
       THEN /\ lastGated' = "clear"
            /\ lastEdit' = "none"
            /\ UNCHANGED <<grid, startNodeRef, endNodeRef>>
       ELSE /\ startNodeRef' = DefaultStart
            /\ endNodeRef' = DefaultEnd
            /\ grid' = createInitialGrid(DefaultStart, DefaultEnd)
            /\ lastGated' = "none"
            /\ lastEdit' = "clear"
    /\ UNCHANGED <<isMousePressed, isRunning, algorithm, isMovingStart, isMovingEnd, speed,
                   timers, visitedCoords, pathCoords>>
    /\ UNCHANGED <<calledNode, returned>>

handleMouseDown(row, col) ==
    /\ UserEvent
    /\ lastEdit' = "none"
    /\ IF isRunning
       THEN /\ lastGated' = "press"
            /\ UNCHANGED <<grid, isMousePressed, isMovingStart, isMovingEnd>>
       ELSE /\ lastGated' = "none"
            /\ IF grid[row][col].isStart
               THEN /\ isMovingStart' = TRUE
                    /\ UNCHANGED <<grid, isMousePressed, isMovingEnd>>
               ELSE IF grid[row][col].isEnd
               THEN /\ isMovingEnd' = TRUE
                    /\ UNCHANGED <<grid, isMousePressed, isMovingStart>>
               ELSE /\ grid' = toggleWall(grid, row, col)
                    /\ isMousePressed' = TRUE
                    /\ UNCHANGED <<isMovingStart, isMovingEnd>>
    /\ UNCHANGED <<isRunning, algorithm, speed, startNodeRef, endNodeRef, timers,
                   visitedCoords, pathCoords>>
    /\ UNCHANGED <<calledNode, returned>>

handleMouseEnter(row, col) ==
    /\ UserEvent
    /\ lastEdit' = "none"
    /\ IF isRunning
       THEN /\ lastGated' = "enter"
            /\ UNCHANGED <<grid, startNodeRef, endNodeRef>>
       ELSE /\ lastGated' = "none"
            /\ IF isMovingStart
               THEN LET m == moveStartNode(grid, row, col, startNodeRef)
                    IN  /\ grid' = m.grid
                        /\ startNodeRef' = m.ref
                        /\ UNCHANGED endNodeRef
               ELSE IF isMovingEnd
               THEN LET m == moveEndNode(grid, row, col, endNodeRef)
                    IN  /\ grid' = m.grid
                        /\ endNodeRef' = m.ref
                        /\ UNCHANGED startNodeRef
               ELSE IF isMousePressed
               THEN /\ grid' = toggleWall(grid, row, col)
                    /\ UNCHANGED <<startNodeRef, endNodeRef>>
               ELSE UNCHANGED <<grid, startNodeRef, endNodeRef>>
    /\ UNCHANGED <<isMousePressed, isRunning, algorithm, isMovingStart, isMovingEnd, speed,
                   timers, visitedCoords, pathCoords>>
    /\ UNCHANGED <<calledNode, returned>>

handleMouseUp ==
    /\ UserEvent
    /\ isMousePressed' = FALSE
    /\ isMovingStart' = FALSE
    /\ isMovingEnd' = FALSE
    /\ lastGated' = "none"
    /\ lastEdit' = "none"
    /\ UNCHANGED <<grid, isRunning, algorithm, speed, startNodeRef, endNodeRef, timers,
                   visitedCoords, pathCoords>>
    /\ UNCHANGED <<calledNode, returned>>

\* The algorithm select; the control is disabled while running.
setAlgorithm(a) ==
    /\ UserEvent
    /\ ~isRunning
    /\ algorithm' = a
    /\ lastGated' = "none"
    /\ lastEdit' = "none"
    /\ UNCHANGED <<grid, isMousePressed, isRunning, isMovingStart, isMovingEnd, speed,
                   startNodeRef, endNodeRef, timers, visitedCoords, pathCoords>>
    /\ UNCHANGED <<calledNode, returned>>

\* The speed slider; the control is disabled while running.
setSpeed(v) ==
    /\ UserEvent
    /\ ~isRunning
    /\ speed' = v
    /\ lastGated' = "none"
    /\ lastEdit' = "none"
    /\ UNCHANGED <<grid, isMousePressed, isRunning, algorithm, isMovingStart, isMovingEnd,
                   startNodeRef, endNodeRef, timers, visitedCoords, pathCoords>>
    /\ UNCHANGED <<calledNode, returned>>

(***************************************************************************)
(* Search run and animation                                                *)
(***************************************************************************)
\* A pending setTimeout callback: what it reveals, the index i it captured
\* and the delay it was registered with.
Timer(kind, i, delay) == [kind |-> kind, i |-> i, delay |-> delay]

\* Delay of the i-th visited reveal (speed * i) and of the i-th path reveal.
visitedDelay(spd, i) == spd * i
pathDelay(i) == PATH_DELAY * i

\* The setTimeout calls of the loop of animateAlgorithm.
animateAlgorithm(visited, spd) ==
    [k \in 1 .. Len(visited) |-> Timer("visited", k - 1, visitedDelay(spd, k - 1))]

\* The setTimeout calls of the loop of animatePath.
animatePath(path) ==
    [k \in 1 .. Len(path) |-> Timer("path", k - 1, pathDelay(k - 1))]

search(alg, g, startNode, endNode) ==
    IF alg = "dijkstra" THEN dijkstra(g, startNode, endNode)
    ELSE astar(g, startNode, endNode)

\* Mutant of visualize: the isRunning gate is missing.
visualizeUngated ==
    /\ UserEvent
    /\ LET gridCopy == copyGrid(grid)
           result == search(algorithm, gridCopy, startNodeRef, endNodeRef)
       IN  /\ isRunning' = TRUE
           /\ visitedCoords' = result.visitedInOrder
           /\ pathCoords' = result.path
           /\ timers' = timers \o animateAlgorithm(result.visitedInOrder, speed)
           /\ lastGated' = IF isRunning THEN "visualize" ELSE "none"
           /\ lastEdit' = "none"
    /\ UNCHANGED <<grid, isMousePressed, algorithm, isMovingStart, isMovingEnd, speed,
                   startNodeRef, endNodeRef>>
    /\ UNCHANGED <<calledNode, returned>>

\* Mutant of visualize: the search runs on the live grid and its writes stay.
visualizeOnLiveGrid ==
    /\ UserEvent
    /\ IF isRunning
       THEN /\ lastGated' = "visualize"
            /\ lastEdit' = "none"
            /\ UNCHANGED <<grid, isRunning, timers, visitedCoords, pathCoords>>
       ELSE LET result == search(algorithm, grid, startNodeRef, endNodeRef)
            IN  /\ grid' = result.grid
                /\ isRunning' = TRUE
                /\ visitedCoords' = result.visitedInOrder
                /\ pathCoords' = result.path
                /\ timers' = timers \o animateAlgorithm(result.visitedInOrder, speed)
                /\ lastGated' = "none"
                /\ lastEdit' = "none"
    /\ UNCHANGED <<isMousePressed, algorithm, isMovingStart, isMovingEnd, speed,
                   startNodeRef, endNodeRef>>
    /\ UNCHANGED <<calledNode, returned>>

visualize ==
    /\ UserEvent
    /\ IF isRunning
       THEN /\ lastGated' = "visualize"
            /\ lastEdit' = "none"
            /\ UNCHANGED <<isRunning, timers, visitedCoords, pathCoords>>
       ELSE LET gridCopy == copyGrid(grid)
                result == search(algorithm, gridCopy, startNodeRef, endNodeRef)
            IN  /\ isRunning' = TRUE
                /\ visitedCoords' = result.visitedInOrder
                /\ pathCoords' = result.path
                /\ timers' = timers \o animateAlgorithm(result.visitedInOrder, speed)
                /\ lastGated' = "none"
                /\ lastEdit' = "none"
    /\ UNCHANGED <<grid, isMousePressed, algorithm, isMovingStart, isMovingEnd, speed,
                   startNodeRef, endNodeRef>>
    /\ UNCHANGED <<calledNode, returned>>

\* Timer order of the event loop: a callback runs before every callback that
\* was registered after it with an equal or longer delay.
canFire(k) == \A j \in 1 .. k - 1 : timers[j].delay > timers[k].delay

removeAt(seq, k) == SubSeq(seq, 1, k - 1) \o SubSeq(seq, k + 1, Len(seq))

\* Mutant of revealVisited: the path phase is started by the first visited
\* reveal (i === 0) instead of the last.
revealVisitedStartsPathFirst(k) ==
    /\ k \in 1 .. Len(timers)
    /\ timers[k].kind = "visited"
    /\ canFire(k)
    /\ LET i == timers[k].i
           n == visitedCoords[i + 1]
       IN  /\ grid' = SetCell(grid, n, [At(grid, n) EXCEPT !.isVisited = TRUE])
           /\ timers' = IF i = 0
                        THEN Append(removeAt(timers, k), Timer("animatePath", 0, speed))
                        ELSE removeAt(timers, k)
    /\ lastGated' = "none"
    /\ lastEdit' = "none"
    /\ UNCHANGED <<isMousePressed, isRunning, algorithm, isMovingStart, isMovingEnd, speed,
                   startNodeRef, endNodeRef, visitedCoords, pathCoords, nEvents>>
    /\ UNCHANGED <<calledNode, returned>>

\* The callback of animateAlgorithm for index i: reveal the visited cell;
\* the last index also registers the timeout that starts the path phase.
revealVisited(k) ==
    /\ k \in 1 .. Len(timers)
    /\ timers[k].kind = "visited"
    /\ canFire(k)
    /\ LET i == timers[k].i
           n == visitedCoords[i + 1]
       IN  /\ grid' = SetCell(grid, n, [At(grid, n) EXCEPT !.isVisited = TRUE])
           /\ timers' = IF i = Len(visitedCoords) - 1
                        THEN Append(removeAt(timers, k), Timer("animatePath", 0, speed))
                        ELSE removeAt(timers, k)
    /\ lastGated' = "none"
    /\ lastEdit' = "none"
    /\ UNCHANGED <<isMousePressed, isRunning, algorithm, isMovingStart, isMovingEnd, speed,
                   startNodeRef, endNodeRef, visitedCoords, pathCoords, nEvents>>
    /\ UNCHANGED <<calledNode, returned>>

\* The nested timeout of animateAlgorithm: call animatePath(pathCoords).
startPath(k) ==
    /\ k \in 1 .. Len(timers)
    /\ timers[k].kind = "animatePath"
    /\ canFire(k)
    /\ timers' = removeAt(timers, k) \o animatePath(pathCoords)
    /\ lastGated' = "none"
    /\ lastEdit' = "none"
    /\ UNCHANGED <<grid, isMousePressed, isRunning, algorithm, isMovingStart, isMovingEnd, speed,
                   startNodeRef, endNodeRef, visitedCoords, pathCoords, nEvents>>
    /\ UNCHANGED <<calledNode, returned>>

\* Mutant of revealPath: isRunning is cleared by the first path reveal
\* (i === 0) instead of the last.
revealPathClearsAtFirst(k) ==
    /\ k \in 1 .. Len(timers)
    /\ timers[k].kind = "path"
    /\ canFire(k)
    /\ LET i == timers[k].i
           n == pathCoords[i + 1]
       IN  /\ grid' = SetCell(grid, n, [At(grid, n) EXCEPT !.isPath = TRUE])
           /\ isRunning' = IF i = 0 THEN FALSE ELSE isRunning
    /\ timers' = removeAt(timers, k)
    /\ lastGated' = "none"
    /\ lastEdit' = "none"
    /\ UNCHANGED <<isMousePressed, algorithm, isMovingStart, isMovingEnd, speed,
                   startNodeRef, endNodeRef, visitedCoords, pathCoords, nEvents>>
    /\ UNCHANGED <<calledNode, returned>>

\* The callback of animatePath for index i: reveal the path cell; the last
\* index clears isRunning.
revealPath(k) ==
    /\ k \in 1 .. Len(timers)
    /\ timers[k].kind = "path"
    /\ canFire(k)
    /\ LET i == timers[k].i
           n == pathCoords[i + 1]
       IN  /\ grid' = SetCell(grid, n, [At(grid, n) EXCEPT !.isPath = TRUE])
           /\ isRunning' = IF i = Len(pathCoords) - 1 THEN FALSE ELSE isRunning
    /\ timers' = removeAt(timers, k)
    /\ lastGated' = "none"
    /\ lastEdit' = "none"
    /\ UNCHANGED <<isMousePressed, algorithm, isMovingStart, isMovingEnd, speed,
                   startNodeRef, endNodeRef, visitedCoords, pathCoords, nEvents>>
    /\ UNCHANGED <<calledNode, returned>>

Next ==
    \/ \E row \in 0 .. ROWS - 1, col \in 0 .. COLS - 1 : handleMouseDown(row, col)
    \/ \E row \in 0 .. ROWS - 1, col \in 0 .. COLS - 1 : handleMouseEnter(row, col)
    \/ handleMouseUp
    \/ resetGrid
    \/ clearBoard
    \/ \E a \in Algorithms : setAlgorithm(a)
    \/ \E v \in SpeedValues : setSpeed(v)
    \/ visualize
    \/ \E k \in 1 .. Len(timers) : revealVisited(k)
    \/ \E k \in 1 .. Len(timers) : startPath(k)
    \/ \E k \in 1 .. Len(timers) : revealPath(k)

Spec == Init /\ [][Next]_vars

(***************************************************************************)
(* The searches as functions of the grid: every wall layout and every      *)
(* placement of the two markers on distinct non-wall cells (each of them   *)
(* can be drawn with the edit handlers), either algorithm, one run.        *)
(***************************************************************************)
AllCoords == (0 .. ROWS - 1) \X (0 .. COLS - 1)

gridWith(walls, s, e) ==
    [row \in 0 .. ROWS - 1 |-> [col \in 0 .. COLS - 1 |->
        [createNode(row, col, s, e) EXCEPT !.isWall = (<<row, col>> \in walls)]]]

InitSearch ==
    /\ \E walls \in SUBSET AllCoords :
       \E s \in AllCoords \ walls :
       \E e \in AllCoords \ (walls \cup {s}) :
          /\ grid = gridWith(walls, s, e)
          /\ startNodeRef = s
          /\ endNodeRef = e
    /\ algorithm \in Algorithms
    /\ isMousePressed = FALSE
    /\ isRunning = FALSE
    /\ isMovingStart = FALSE
    /\ isMovingEnd = FALSE
    /\ speed = INITIAL_SPEED
    /\ timers = << >>
    /\ visitedCoords = << >>
    /\ pathCoords = << >>
    /\ lastGated = "none"
    /\ lastEdit = "none"
    /\ nEvents = 0
    /\ calledNode = NULL
    /\ returned = << >>

\* The run trigger, invoked once.
NextSearch == nEvents = 0 /\ visualize

SearchSpec == InitSearch /\ [][NextSearch]_vars

(***************************************************************************)
(* getNeighbors as a function of the grid and the cell: every wall layout  *)
(* of a grid that has interior cells, one call on any cell.                *)
(***************************************************************************)
NeighborCoords == (0 .. NeighborRows - 1) \X (0 .. NeighborCols - 1)

InitNeighbor ==
    /\ \E walls \in SUBSET NeighborCoords :
          grid = [row \in 0 .. NeighborRows - 1 |-> [col \in 0 .. NeighborCols - 1 |->
                    [createNode(row, col, DefaultStart, DefaultEnd)
                        EXCEPT !.isWall = (<<row, col>> \in walls)]]]
    /\ isMousePressed = FALSE
    /\ isRunning = FALSE
    /\ algorithm = "dijkstra"
    /\ isMovingStart = FALSE
    /\ isMovingEnd = FALSE
    /\ speed = INITIAL_SPEED
    /\ startNodeRef = DefaultStart
    /\ endNodeRef = DefaultEnd
    /\ timers = << >>
    /\ visitedCoords = << >>
    /\ pathCoords = << >>
    /\ lastGated = "none"
    /\ lastEdit = "none"
    /\ nEvents = 0
    /\ calledNode = NULL
    /\ returned = << >>

\* One call getNeighbors(node, grid).
callGetNeighbors(node) ==
    /\ calledNode = NULL
    /\ calledNode' = node
    /\ returned' = getNeighbors(node, grid)
    /\ UNCHANGED <<grid, isMousePressed, isRunning, algorithm, isMovingStart, isMovingEnd,
                   speed, startNodeRef, endNodeRef, timers, visitedCoords, pathCoords,
                   lastGated, lastEdit, nEvents>>

NextNeighbor == \E node \in NeighborCoords : callGetNeighbors(node)

NeighborSpec == InitNeighbor /\ [][NextNeighbor]_vars

(***************************************************************************)
(* Reference notions the claims are stated with (independent of the        *)
(* searches): walls, orthogonal adjacency, breadth-first hop distance.     *)
(***************************************************************************)
Walls == {n \in AllCoords : At(grid, n).isWall}
Adjacent(a, b) == Abs(a[1] - b[1]) + Abs(a[2] - b[2]) = 1
\* The cells of open that are adjacent to a cell of S.
OpenNext(S, open) == {n \in open : \E m \in S : Adjacent(m, n)}

\* Hop count of a shortest orthogonal route inside open from the frontier to
\* target, -1 if there is none; d is the hop count of the frontier.
RECURSIVE HopsFrom(_, _, _, _, _)
HopsFrom(frontier, seen, target, d, open) ==
    IF target \in frontier THEN d
    ELSE IF frontier = {} THEN -1
    ELSE LET next == OpenNext(frontier, open \ seen)
         IN  HopsFrom(next, seen \cup next, target, d + 1, open)

ShortestHops ==
    LET open == AllCoords \ Walls
    IN  IF startNodeRef \notin open THEN -1
        ELSE HopsFrom({startNodeRef}, {startNodeRef}, endNodeRef, 0, open)

Connected == ShortestHops >= 0

\* A search has run on the current grid and its result is in the trace.
SearchDone == isRunning /\ nEvents = 1

SeqRange(seq) == {seq[k] : k \in 1 .. Len(seq)}
NoRepeat(seq) == \A i, j \in 1 .. Len(seq) : i # j => seq[i] # seq[j]

(***************************************************************************)
(* Claims about the searches (checked under SearchSpec)                    *)
(***************************************************************************)

\* C4: when start and end are connected through non-wall cells, the search
\* that ran (uniform-cost or heuristic-guided) returns a non-empty path whose
\* cell count is the shortest hop count plus one; hence both searches return
\* paths of the same, minimum, cell count.
C4_ShortestPath ==
    SearchDone =>
        LET hops == ShortestHops
        IN  hops >= 0 =>
                /\ pathCoords # << >>
                /\ Len(pathCoords) = hops + 1

\* The heuristic-guided search has found a path that must detour around walls.
C4_Witness ==
    /\ SearchDone
    /\ Connected
    /\ algorithm = "astar"
    /\ Len(pathCoords) = ShortestHops + 1
    /\ ShortestHops > heuristic(startNodeRef, endNodeRef)

\* (row, col) is the only open cell of a column that lies strictly between
\* the columns of start and end.
IsGap(row, col) ==
    /\ \/ startNodeRef[2] < col /\ col < endNodeRef[2]
       \/ endNodeRef[2] < col /\ col < startNodeRef[2]
    /\ \A r \in 0 .. ROWS - 1 : grid[r][col].isWall <=> (r # row)

\* C5: a non-empty path begins at the start cell, ends at the end cell, has
\* orthogonally adjacent consecutive cells, no repeated cell and no wall
\* cell; when a column between start and end is all wall except one gap
\* cell, the path contains the gap cell.
C5_PathWellFormed ==
    (SearchDone /\ pathCoords # << >>) =>
        /\ pathCoords[1] = startNodeRef
        /\ pathCoords[Len(pathCoords)] = endNodeRef
        /\ \A k \in 1 .. Len(pathCoords) - 1 : Adjacent(pathCoords[k], pathCoords[k + 1])
        /\ NoRepeat(pathCoords)
        /\ \A k \in 1 .. Len(pathCoords) : ~At(grid, pathCoords[k]).isWall
        /\ \A n \in AllCoords : IsGap(n[1], n[2]) => n \in SeqRange(pathCoords)

\* A path of at least three cells through the single gap of a wall column.
C5_Witness ==
    /\ SearchDone
    /\ Len(pathCoords) >= 3
    /\ pathCoords[1] = startNodeRef
    /\ pathCoords[Len(pathCoords)] = endNodeRef
    /\ \E n \in AllCoords : IsGap(n[1], n[2]) /\ n \in SeqRange(pathCoords)

\* C6: when no wall-free orthogonal route joins start and end, the search
\* that ran terminates with an empty path.
C6_UnreachableEmptyPath ==
    (SearchDone /\ ~Connected) => pathCoords = << >>

\* A search that explored several cells and found the end walled off.
C6_Witness ==
    /\ SearchDone
    /\ ~Connected
    /\ pathCoords = << >>
    /\ Len(visitedCoords) >= 2

(***************************************************************************)
(* Claims about the live grid, the handlers and the animation (checked     *)
(* under Spec)                                                             *)
(***************************************************************************)
StartCells == {n \in AllCoords : At(grid, n).isStart}
EndCells == {n \in AllCoords : At(grid, n).isEnd}

\* C1: in every reachable state of the live grid exactly one cell has
\* isStart = true and exactly one cell has isEnd = true.
C1_ExactlyOneStartAndEnd ==
    /\ Cardinality(StartCells) = 1
    /\ Cardinality(EndCells) = 1

\* The isStart, isEnd and isWall flag of every cell.
RoleFlags(g) == [n \in AllCoords |-> <<At(g, n).isStart, At(g, n).isEnd, At(g, n).isWall>>]

\* handleMouseEnter calls moveStartNode (resp. moveEndNode) for a target
\* that is a wall or holds the other marker.
MoveStartRejected(n) ==
    /\ ~isRunning
    /\ isMovingStart
    /\ At(grid, n).isWall \/ At(grid, n).isEnd
    /\ handleMouseEnter(n[1], n[2])
MoveEndRejected(n) ==
    /\ ~isRunning
    /\ ~isMovingStart
    /\ isMovingEnd
    /\ At(grid, n).isWall \/ At(grid, n).isStart
    /\ handleMouseEnter(n[1], n[2])

\* C2: moving the start (resp. end) marker onto a wall cell or onto the
\* other marker's cell changes no isStart, isEnd or isWall flag and neither
\* recorded marker coordinate.
C2_RejectedMoveIsNoOp ==
    [][\A n \in AllCoords :
          (MoveStartRejected(n) \/ MoveEndRejected(n)) =>
              /\ RoleFlags(grid') = RoleFlags(grid)
              /\ startNodeRef' = startNodeRef
              /\ endNodeRef' = endNodeRef]_vars

\* C3: for a run that has a trace to reveal, isRunning is true as long as a
\* callback of the run is pending (both phases), and it is cleared when none
\* is left: after the last path cell, or right after the visited phase when
\* the path is empty.
C3_RunningUntilRunOver ==
    /\ timers # << >> => isRunning
    /\ (visitedCoords # << >> /\ timers = << >>) => ~isRunning

\* C7: runSearch invoked while isRunning is true changes neither the live
\* grid, nor isRunning, nor the pending reveal callbacks and their trace.
C7_RunWhileRunningRejected ==
    [][(isRunning /\ visualize) =>
          UNCHANGED <<grid, isRunning, timers, visitedCoords, pathCoords>>]_vars

\* runSearch was invoked during a run whose reveals are still pending.
C7_Witness ==
    /\ isRunning
    /\ lastGated = "visualize"
    /\ timers # << >>

\* C8: while isRunning is true, press, enter, reset and clear leave the live
\* grid unchanged, and a reveal callback fires only while isRunning is true.
C8_WritersDisjoint ==
    [][/\ (isRunning /\ (\/ \E n \in AllCoords : handleMouseDown(n[1], n[2])
                         \/ \E n \in AllCoords : handleMouseEnter(n[1], n[2])
                         \/ resetGrid
                         \/ clearBoard)) => grid' = grid
       /\ (\E k \in 1 .. Len(timers) : revealVisited(k) \/ revealPath(k)) => isRunning]_vars

\* An edit was attempted during a run that has already revealed a cell.
C8_Witness ==
    /\ isRunning
    /\ lastGated \in {"press", "enter", "reset", "clear"}
    /\ \E n \in AllCoords : At(grid, n).isVisited

PendingIndex(kind) == {timers[k].i : k \in {j \in 1 .. Len(timers) : timers[j].kind = kind}}
\* The pending callbacks of one kind are the last ones of the n registered.
IsSuffix(S, n) == \A i \in S : \A j \in i .. n - 1 : j \in S

\* C9: within a run the reveals not yet fired are the tail of the trace (the
\* i-th visited reveal fires before the (i+1)-th, path cells are revealed
\* from start to end), and the path reveals are registered only after the
\* last visited reveal has fired.
C9_RevealsInTraceOrder ==
    /\ IsSuffix(PendingIndex("visited"), Len(visitedCoords))
    /\ IsSuffix(PendingIndex("path"), Len(pathCoords))
    /\ PendingIndex("visited") # {} =>
          /\ PendingIndex("path") = {}
          /\ PendingIndex("animatePath") = {}
    /\ PendingIndex("animatePath") # {} => PendingIndex("path") = {}

\* The path phase of a run is under way: the first path cells are revealed,
\* later ones are pending.
C9_Witness ==
    /\ isRunning
    /\ Len(visitedCoords) >= 2
    /\ PendingIndex("visited") = {}
    /\ PendingIndex("path") # {}
    /\ \A i \in PendingIndex("path") : i >= 1

\* C10: no cell of the live grid has more than one of isStart, isEnd and
\* isWall set.
C10_RolesExclusive ==
    \A n \in AllCoords :
        /\ ~(At(grid, n).isStart /\ At(grid, n).isEnd)
        /\ ~(At(grid, n).isStart /\ At(grid, n).isWall)
        /\ ~(At(grid, n).isEnd /\ At(grid, n).isWall)

\* Walls are drawn and the start marker has been dragged to another cell
\* while a wall stroke is in progress.
C10_Witness ==
    /\ Walls # {}
    /\ isMousePressed
    /\ startNodeRef # DefaultStart
    /\ At(grid, startNodeRef).isStart
    /\ EndCells # {}

(***************************************************************************)
(* Claims about the grid edits (checked under Spec)                        *)
(***************************************************************************)
WallLayout(g) == [n \in AllCoords |-> At(g, n).isWall]
IsPlain(g, n) == ~At(g, n).isStart /\ ~At(g, n).isEnd

\* C11: on every reachable grid and for every cell that is neither start nor
\* end, one toggleWall flips the isWall flag of that cell and changes nothing
\* else, and a second toggleWall on the same cell restores the wall layout
\* (and the whole grid).
C11_ToggleWallTwiceRestores ==
    \A n \in AllCoords :
        IsPlain(grid, n) =>
            LET once == toggleWall(grid, n[1], n[2])
                twice == toggleWall(once, n[1], n[2])
            IN  /\ At(once, n) = [At(grid, n) EXCEPT !.isWall = ~At(grid, n).isWall]
                /\ \A m \in AllCoords \ {n} : At(once, m) = At(grid, m)
                /\ WallLayout(twice) = WallLayout(grid)
                /\ twice = grid

\* A wall stroke has toggled cells: the grid has wall cells (toggled back
\* and forth by the claim) and plain open cells.
C11_Witness ==
    /\ isMousePressed
    /\ nEvents >= 2
    /\ \E n \in AllCoords : IsPlain(grid, n) /\ At(grid, n).isWall
    /\ \E n \in AllCoords : IsPlain(grid, n) /\ ~At(grid, n).isWall

ScratchInitial(cell) ==
    /\ cell.isVisited = FALSE
    /\ cell.isPath = FALSE
    /\ cell.distance = Infinity
    /\ cell.fScore = Infinity
    /\ cell.previous = NULL

\* C12: reset() while not running leaves every cell with its scratch fields
\* (visited, onPath, distance, priorityScore, predecessor) initial and with
\* its isWall, isStart and isEnd unchanged, and a second reset() would leave
\* the grid as the first one left it.
C12_ResetClearsScratchIdempotent ==
    [][(~isRunning /\ resetGrid) =>
          /\ \A n \in AllCoords : ScratchInitial(At(grid', n))
          /\ RoleFlags(grid') = RoleFlags(grid)
          /\ \A n \in AllCoords : At(grid', n).row = n[1] /\ At(grid', n).col = n[2]
          /\ resetCells(grid') = grid']_vars

\* reset() has just run after a completed run on a grid with walls: the
\* reveal flags are gone, the walls are still there.
C12_Witness ==
    /\ lastEdit = "reset"
    /\ ~isRunning
    /\ pathCoords # << >>
    /\ Walls # {}
    /\ \A n \in AllCoords : ~At(grid, n).isVisited /\ ~At(grid, n).isPath

\* The live grid differs from g only by flag `field` set on cell n.
RevealOf(g, n, field) ==
    IF field = "isVisited"
    THEN SetCell(g, n, [At(g, n) EXCEPT !.isVisited = TRUE])
    ELSE SetCell(g, n, [At(g, n) EXCEPT !.isPath = TRUE])

\* C13: the search of a run writes nothing to the live grid: every live cell
\* always has distance = Infinity, fScore = Infinity and previous = null, the
\* step that starts a run leaves the live grid as it was, and while running
\* the live grid changes only by isVisited set on one cell of the visited
\* trace or isPath set on one cell of the path trace.
C13_SearchLeavesLiveGrid ==
    /\ [](\A n \in AllCoords :
             /\ At(grid, n).distance = Infinity
             /\ At(grid, n).fScore = Infinity
             /\ At(grid, n).previous = NULL)
    /\ [][/\ (~isRunning /\ isRunning') => grid' = grid
          /\ (isRunning /\ grid' # grid) =>
                \/ \E n \in SeqRange(visitedCoords) : grid' = RevealOf(grid, n, "isVisited")
                \/ \E n \in SeqRange(pathCoords) : grid' = RevealOf(grid, n, "isPath")]_vars

\* A run that visited several cells is under way and a reveal has fired.
C13_Witness ==
    /\ isRunning
    /\ timers # << >>
    /\ Len(visitedCoords) >= 2
    /\ \E n \in AllCoords : At(grid, n).isVisited

(***************************************************************************)
(* Claims about getNeighbors (checked under NeighborSpec)                  *)
(***************************************************************************)
\* Position of m in the order up, down, left, right around n (0 if m is not
\* one of the four cells around n).
Direction(n, m) ==
    IF m = <<n[1] - 1, n[2]>> THEN 1
    ELSE IF m = <<n[1] + 1, n[2]>> THEN 2
    ELSE IF m = <<n[1], n[2] - 1>> THEN 3
    ELSE IF m = <<n[1], n[2] + 1>> THEN 4
    ELSE 0

\* C14: what getNeighbors(node, grid) returns holds only cells orthogonally
\* adjacent to node, inside the grid and not walls, at most 4 of them, and
\* lists them in the order up, down, left, right.
C14_NeighborsAdjacentOpenOrdered ==
    calledNode # NULL =>
        /\ Len(returned) <= 4
        /\ \A k \in 1 .. Len(returned) :
              /\ returned[k] \in Coords(grid)
              /\ Adjacent(calledNode, returned[k])
              /\ ~At(grid, returned[k]).isWall
        /\ \A j, k \in 1 .. Len(returned) :
              j < k => Direction(calledNode, returned[j]) < Direction(calledNode, returned[k])

\* getNeighbors was called on an interior cell with four open neighbours
\* (and, in another call, on a cell with a wall beside it).
C14_Witness ==
    /\ calledNode # NULL
    /\ Len(returned) = 4
    /\ \E n \in Coords(grid) : At(grid, n).isWall

C14_WitnessWallFiltered ==
    /\ calledNode # NULL
    /\ \E n \in Coords(grid) : Adjacent(calledNode, n) /\ At(grid, n).isWall

(***************************************************************************)
(* Claims about the interaction state during a run (checked under Spec)    *)
(***************************************************************************)
\* Idle, DrawingWalls, DraggingStart or DraggingEnd, as the three flags
\* encode it.
InteractionState == <<isMousePressed, isMovingStart, isMovingEnd>>

InputEvent ==
    \/ \E row \in 0 .. ROWS - 1, col \in 0 .. COLS - 1 : handleMouseDown(row, col)
    \/ \E row \in 0 .. ROWS - 1, col \in 0 .. COLS - 1 : handleMouseEnter(row, col)
    \/ handleMouseUp

\* C15: while isRunning is true, no press, enter or release changes the
\* interaction state.
C15_InputIgnoredWhileRunning ==
    [][(isRunning /\ InputEvent) => UNCHANGED InteractionState]_vars

(***************************************************************************)
(* Further claims about the searches (checked under SearchSpec)            *)
(***************************************************************************)
\* C16: either search returns (the run starts) with a trace of at most
\* ROWS * COLS cells, in which no cell occurs twice and no cell is a wall.
C16_TraceBoundedNoRepeatNoWall ==
    SearchDone =>
        /\ Len(visitedCoords) <= ROWS * COLS
        /\ NoRepeat(visitedCoords)
        /\ \A k \in 1 .. Len(visitedCoords) : ~At(grid, visitedCoords[k]).isWall

\* A search on a grid with one wall finalized every open cell.
C16_Witness ==
    /\ SearchDone
    /\ Cardinality(Walls) = 1
    /\ Len(visitedCoords) = ROWS * COLS - 1

\* The cell that relaxed trace[k]: the first finalized cell beside it (a
\* distance is written once, by the first finalized neighbour).
Relaxer(trace, k) ==
    CHOOSE j \in 1 .. k - 1 :
        /\ Adjacent(trace[j], trace[k])
        /\ \A i \in 1 .. j - 1 : ~Adjacent(trace[i], trace[k])

\* The distance trace[k] was finalized with.
RECURSIVE TraceDistance(_, _)
TraceDistance(trace, k) ==
    IF k = 1 THEN 0 ELSE 1 + TraceDistance(trace, Relaxer(trace, k))

RowMajor(n) == n[1] * COLS + n[2]

DijkstraDone == SearchDone /\ algorithm = "dijkstra"

\* C17 as stated: in the trace of the uniform-cost search, cells of equal
\* distance appear in the order in which they were first relaxed: by the
\* position of the relaxing cell in the trace, then by the position of the
\* cell in the up, down, left, right order around the relaxing cell.
C17_EqualDistanceInRelaxationOrder ==
    DijkstraDone =>
        \A i, j \in 2 .. Len(visitedCoords) :
            (i < j /\ TraceDistance(visitedCoords, i) = TraceDistance(visitedCoords, j)) =>
                LET ri == Relaxer(visitedCoords, i)
                    rj == Relaxer(visitedCoords, j)
                IN  \/ ri < rj
                    \/ /\ ri = rj
                       /\ Direction(visitedCoords[ri], visitedCoords[i])
                            < Direction(visitedCoords[rj], visitedCoords[j])

\* C17 amended: cells of equal distance appear by the position of the
\* relaxing cell in the trace, and cells relaxed by the same cell appear in
\* row-major order of their coordinates (up, left, right, down).
C17_EqualDistanceInBatchRowMajorOrder ==
    DijkstraDone =>
        \A i, j \in 2 .. Len(visitedCoords) :
            (i < j /\ TraceDistance(visitedCoords, i) = TraceDistance(visitedCoords, j)) =>
                LET ri == Relaxer(visitedCoords, i)
                    rj == Relaxer(visitedCoords, j)
                IN  \/ ri < rj
                    \/ /\ ri = rj
                       /\ RowMajor(visitedCoords[i]) < RowMajor(visitedCoords[j])

\* A uniform-cost run finalized two cells relaxed by the same cell, the one
\* to its left or right before the one below it.
C17_Witness ==
    /\ DijkstraDone
    /\ \E i, j \in 2 .. Len(visitedCoords) :
          /\ i < j
          /\ Relaxer(visitedCoords, i) = Relaxer(visitedCoords, j)
          /\ Direction(visitedCoords[Relaxer(visitedCoords, i)], visitedCoords[i]) \in {3, 4}
          /\ Direction(visitedCoords[Relaxer(visitedCoords, j)], visitedCoords[j]) = 2

(***************************************************************************)
(* Further claims about the session (checked under Spec)                   *)
(***************************************************************************)
\* C18: right after clear() ran while not running, the grid has no wall,
\* isStart exactly on the default start coordinate, isEnd exactly on the
\* default end coordinate, every scratch field initial, and startNodeRef
\* and endNodeRef are the defaults.
C18_ClearRestoresDefaults ==
    lastEdit = "clear" =>
        /\ \A n \in AllCoords :
              /\ ~At(grid, n).isWall
              /\ At(grid, n).isStart = (n = <<START_NODE_ROW, START_NODE_COL>>)
              /\ At(grid, n).isEnd = (n = <<END_NODE_ROW, END_NODE_COL>>)
              /\ ScratchInitial(At(grid, n))
        /\ startNodeRef = <<START_NODE_ROW, START_NODE_COL>>
        /\ endNodeRef = <<END_NODE_ROW, END_NODE_COL>>

\* clear() ran in the middle of a start-marker drag, after two earlier
\* events (the press on the start cell and an enter).
C18_Witness ==
    /\ lastEdit = "clear"
    /\ isMovingStart
    /\ nEvents >= 3

\* C19: whenever isRunning is false no callback is pending: the callback
\* that clears isRunning is the last one of its run to fire.
C19_IdleMeansNoPendingCallback ==
    ~isRunning => timers = << >>

\* A run has ended: its whole path is revealed and isRunning is false again.
C19_Witness ==
    /\ ~isRunning
    /\ Len(pathCoords) >= 2
    /\ \A k \in 1 .. Len(pathCoords) : At(grid, pathCoords[k]).isPath

\* C20: startNodeRef and endNodeRef are distinct, the cells flagged isStart
\* and isEnd are exactly the cells they name, and neither of these cells is
\* a wall.
C20_RefsNameTheMarkers ==
    /\ startNodeRef # endNodeRef
    /\ StartCells = {startNodeRef}
    /\ EndCells = {endNodeRef}
    /\ ~At(grid, startNodeRef).isWall
    /\ ~At(grid, endNodeRef).isWall

====
